---- MODULE Spec2Model ----
(***************************************************************************)
(* The discovery-call lead intake handler of wearthy-site.                 *)
(*                                                                         *)
(* The repository holds four revisions of the same handler:                *)
(*   "photos"  src/api/hubspot/discovery-call.ts lines 1-227               *)
(*             (single full payload, photo upload, note)                   *)
(*   "split"   src/api/hubspot/discovery-call.ts lines 229-566             *)
(*             (credential check, basic payload, delayed custom update,    *)
(*              photo upload, note)                                        *)
(*   "basic"   src/api/hubspot/discovery-call.ts lines 568-682             *)
(*             (single full payload, photos only logged)                   *)
(*   "astro"   src/unnamed/part_000                                        *)
(*             (form-data transport, POST route only, photos only logged)  *)
(*                                                                         *)
(* A request is handled from its arrival to its response; Spec follows     *)
(* one request, SpecConcurrent and SpecCrm interleave several at their     *)
(* awaits, SpecNormalize, SpecFields and SpecToken draw the fields of the  *)
(* submission and the token from all values within the bounds.  Every      *)
(* outbound call is two steps: the fetch is issued (it is appended to      *)
(* calls) and, later, the remote side answers or the fetch throws.  The    *)
(* remote side is nondeterministic; what it answered is kept in createRes, *)
(* updateRes, uploadRes and noteRes.  The remote side keeps to its         *)
(* contract in one respect: an answer with a 2xx status carries a JSON     *)
(* body with the id of the record.  Error answers carry a JSON body with   *)
(* a message, a JSON body without one, or a body that is no JSON.          *)
(***************************************************************************)
EXTENDS Integers, Sequences, FiniteSets, TLC

VARIABLES
    variant,      \* which revision of the handler serves the request
    apiKeySet,    \* HUBSPOT_API_KEY is configured
    method,       \* req.method
    photos,       \* formData.photos
    pc,           \* position of the handler
    calls,        \* outbound calls issued so far, in order
    createRes,    \* what the create-contact call came back with
    updateRes,    \* what each contact update call came back with, in order
    uploadRes,    \* what each photo's upload came to, in photo order
    noteRes,      \* what the note-create call came back with
    contactId,    \* let contactId
    fileIds,      \* const fileIds: string[]
    i,            \* loop index of the photo loop (1-based)
    response,     \* the response sent to the client
    formData,     \* the fields of the submission that are normalized
    contactPayload, \* the normalized properties the handler sends
    apiKey,       \* HUBSPOT_API_KEY, the token (empty when not configured)
    keyLog,       \* what console.log wrote about the token
    current,      \* the request whose invocation is running
    parked,       \* the locals of the invocations that are not running
    crm           \* the contact records of the remote side, where it is
                  \* followed

vars == <<variant, apiKeySet, method, photos, pc, calls, createRes, updateRes,
          uploadRes, noteRes, contactId, fileIds, i, response, formData,
          contactPayload, apiKey, keyLog, current, parked, crm>>

-----------------------------------------------------------------------------
(* Bounds of the model *)

MaxPhotos == 3

\* The longest contact name, in characters, and the most planning-stage tags
MaxNameLen == 4
MaxPhases == 2

\* The longest token, in characters
MaxKeyLen == 12

\* The most requests that are handled at a time
MaxRequests == 2

-----------------------------------------------------------------------------
(* JavaScript values *)

\* The JavaScript value undefined; `${undefined}` prints like this.
Undefined == "undefined"

\* The JavaScript value null: FormData.get of a field that is absent.
Null == "null"

\* JavaScript truthiness of a string, undefined or null.
Truthy(v) == v # Undefined /\ v # Null /\ v # ""

RECURSIVE Join(_, _)
\* Array.prototype.join on an array of strings
Join(arr, sep) ==
    IF Len(arr) = 0 THEN ""
    ELSE IF Len(arr) = 1 THEN arr[1]
    ELSE arr[1] \o sep \o Join(Tail(arr), sep)

RECURSIVE Split(_, _)
\* String.prototype.split on a one-character separator; a string is a
\* sequence of one-character strings.
Split(text, sep) ==
    IF \A p \in 1..Len(text) : text[p] # sep
    THEN <<text>>
    ELSE LET p == CHOOSE q \in 1..Len(text) :
                      /\ text[q] = sep
                      /\ \A r \in 1..(q - 1) : text[r] # sep
         IN  <<SubSeq(text, 1, p - 1)>> \o Split(SubSeq(text, p + 1, Len(text)), sep)

\* Response.ok of fetch
IsOkStatusOnly200(status) == status = 200

IsOkBelow500(status) == status < 500

IsOk(status) == status >= 200 /\ status <= 299

\* String.prototype.substring(start, end) on a sequence of characters: both
\* positions are brought into 0..length and swapped if out of order.
Substring(text, start, end) ==
    LET clamp(n) == IF n < 0 THEN 0 ELSE IF n > Len(text) THEN Len(text) ELSE n
        lo == IF clamp(start) <= clamp(end) THEN clamp(start) ELSE clamp(end)
        hi == IF clamp(start) <= clamp(end) THEN clamp(end) ELSE clamp(start)
    IN  SubSeq(text, lo + 1, hi)

-----------------------------------------------------------------------------
(* The revisions *)

Variants == {"photos", "split", "basic", "astro"}

\* The Vercel handlers receive every method; the Astro route exports POST only.
Methods(v) == IF v = "astro" THEN {"POST"} ELSE {"POST", "GET"}

MethodAllowedAny(m) == TRUE

\* req.method !== 'POST' is rejected
MethodAllowed(m) == m = "POST"

\* Only the split revision checks the credential before anything else.
ChecksApiKey(v) == v = "split"

\* and only the split revision logs the 'API Key check'.
LogsApiKey(v) == v = "split"

\* The characters of the token the log shows at its start and at its end
PrefixLen == 7
SuffixLen == 4

NoKeyLog ==
    [logged |-> FALSE, hasKey |-> FALSE, keyPrefix |-> <<>>, keySuffix |-> <<>>,
     keyLength |-> 0]

\* console.log('API Key check:', {hasKey, keyPrefix, keySuffix, keyLength})
KeyLog(key) ==
    [logged |-> TRUE,
     hasKey |-> key # <<>>,
     keyPrefix |-> Substring(key, 0, PrefixLen),
     keySuffix |-> Substring(key, Len(key) - SuffixLen, Len(key)),
     keyLength |-> Len(key)]

\* The tokens: every string of up to MaxKeyLen of these characters
KeyChars == {"k", "z"}

KeyInputs == UNION {[1..n -> KeyChars] : n \in 0..MaxKeyLen}

\* The token of the runs that follow the handler to its response: not
\* configured, or a token of twelve characters
SampleKey == <<"p", "a", "t", "-", "n", "a", "1", "-", "k", "z", "k", "z">>

KeySamples == {<<>>, SampleKey}

UsesDelayedUpdateAll(v) == TRUE

\* Only the split revision sends the custom fields in a second, delayed update.
UsesDelayedUpdate(v) == v = "split"

\* The revisions that upload the photos; the others only log them.
UploadsPhotos(v) == v \in {"photos", "split"}

\* The property set of the create call and of the update after a 409.
FirstPayload(v) == IF UsesDelayedUpdate(v) THEN "basic" ELSE "full"

-----------------------------------------------------------------------------
(* Messages of the responses *)

MsgMethodNotAllowed == "Method not allowed"
MsgConfigError == "Server configuration error. Please contact support."
MsgGenericError == "An error occurred. Please try again or contact us directly."
MsgThanks == "Thank you! Please select a time below to speak with Flora."

NoResponse ==
    [status |-> 0, success |-> FALSE, contactId |-> Undefined, message |-> ""]

Response405 ==
    [status |-> 405, success |-> FALSE, contactId |-> Undefined,
     message |-> MsgMethodNotAllowed]

ResponseConfigError ==
    [status |-> 500, success |-> FALSE, contactId |-> Undefined,
     message |-> MsgConfigError]

Response500WithDetail ==
    [status |-> 500, success |-> FALSE, contactId |-> Undefined,
     message |-> IF pc = "await_update"
                 THEN "Failed to update contact " \o calls[Len(calls)].target
                 ELSE MsgGenericError]

Response500RawError ==
    [status |-> 500, success |-> FALSE, contactId |-> Undefined,
     message |-> "Failed to create contact in HubSpot"]

\* the catch block of the handler
Response500 ==
    [status |-> 500, success |-> FALSE, contactId |-> Undefined,
     message |-> MsgGenericError]

Response200(cid) ==
    [status |-> 200, success |-> TRUE, contactId |-> cid, message |-> MsgThanks]

-----------------------------------------------------------------------------
(* The existing-ID pattern  /Existing ID: (\d+)/ *)

Digits == {"0", "1", "2", "3", "4", "5", "6", "7", "8", "9"}

ExistingIdPrefix ==
    <<"E", "x", "i", "s", "t", "i", "n", "g", " ", "I", "D", ":", " ">>

\* The pattern matches at position p: the literal, then at least one digit.
MatchesAt(text, p) ==
    /\ p + Len(ExistingIdPrefix) <= Len(text)
    /\ SubSeq(text, p, p + Len(ExistingIdPrefix) - 1) = ExistingIdPrefix
    /\ text[p + Len(ExistingIdPrefix)] \in Digits

\* As DigitRun, for the pattern /Existing ID: (\d)/: one digit only.
DigitRunOfOne(text, p) ==
    IF p <= Len(text) /\ text[p] \in Digits THEN text[p] ELSE ""

RECURSIVE DigitRun(_, _)
\* The longest run of digits of text that starts at position p, as a string.
DigitRun(text, p) ==
    IF p <= Len(text) /\ text[p] \in Digits
    THEN text[p] \o DigitRun(text, p + 1)
    ELSE ""

\* errorData.message.match(/Existing ID: (\d+)/)?.[1]
MatchExistingId(text) ==
    LET ps == {p \in 1..Len(text) : MatchesAt(text, p)}
    IN  IF ps = {} THEN Undefined
        ELSE DigitRun(text,
                 (CHOOSE p \in ps : \A q \in ps : p <= q) + Len(ExistingIdPrefix))

-----------------------------------------------------------------------------
(* Photo payloads *)

\* A data URL, a string with no comma, and a value that is no string.
PhotoPayloads ==
    { [isString |-> TRUE,  text |-> <<"h", ",", "d">>],
      [isString |-> TRUE,  text |-> <<"h", "d">>],
      [isString |-> FALSE, text |-> <<>>] }

\* As DecodeThrows, with a string without a comma taken as the data itself.
DecodeThrowsNonStringOnly(photo) == ~photo.isString

\* fileData.split(',')[1] followed by Buffer.from(base64Data, 'base64'):
\* split is no function of a non-string, and Buffer.from(undefined) throws.
DecodeThrows(photo) ==
    \/ ~photo.isString
    \/ Len(Split(photo.text, ",")) < 2

PhotoLists ==
    UNION { [1..n -> PhotoPayloads] : n \in 0..MaxPhotos }

\* formData.photos: absent, or a list
PhotoInputs ==
    {[given |-> FALSE, items |-> <<>>]}
        \cup {[given |-> TRUE, items |-> l] : l \in PhotoLists}

ShouldProcessPhotosNoIdCheck(v, ph, cid) ==
    UploadsPhotos(v) /\ ph.given /\ Len(ph.items) > 0

\* photos && Array.isArray(photos) && photos.length > 0 && contactId
ShouldProcessPhotos(v, ph, cid) ==
    UploadsPhotos(v) /\ ph.given /\ Len(ph.items) > 0 /\ Truthy(cid)

ShouldCreateNoteAlways(ids) == TRUE

\* if (fileIds.length > 0)
ShouldCreateNote(ids) == Len(ids) > 0

PushFileIdFront(ids, id) == <<id>> \o ids

\* fileIds.push(fileId)
PushFileId(ids, id) == Append(ids, id)

-----------------------------------------------------------------------------
(* Field normalization *)

\* As JsOr, without the default.
JsOrLeft(a, b) == a

\* a || b on strings
JsOr(a, b) == IF Truthy(a) THEN a ELSE b

\* The characters of the contact names; String.prototype.trim removes the
\* white space at both ends.
NameChars == {"A", "b", " ", "\t"}
WhiteSpace == {" ", "\t"}

RECURSIVE TrimStart(_)
TrimStart(text) ==
    IF text # <<>> /\ Head(text) \in WhiteSpace THEN TrimStart(Tail(text))
    ELSE text

RECURSIVE TrimEnd(_)
TrimEnd(text) ==
    IF text # <<>> /\ text[Len(text)] \in WhiteSpace
    THEN TrimEnd(SubSeq(text, 1, Len(text) - 1))
    ELSE text

\* String.prototype.trim
Trim(text) == TrimEnd(TrimStart(text))

RECURSIVE JoinText(_, _)
\* Array.prototype.join on an array of texts (sequences of characters)
JoinText(parts, sep) ==
    IF Len(parts) = 0 THEN <<>>
    ELSE IF Len(parts) = 1 THEN parts[1]
    ELSE parts[1] \o sep \o JoinText(Tail(parts), sep)

\* formData.contactName || '' (formData.get('contactName'), null if absent)
FullName(form) == IF form.contactName.given THEN form.contactName.text ELSE <<>>

\* fullName.trim().split(' ')
NameParts(form) == Split(Trim(FullName(form)), " ")

\* nameParts[0] || ''
Firstname(form) == NameParts(form)[1]

LastnameSecondPartOnly(form) ==
    IF Len(NameParts(form)) >= 2 THEN NameParts(form)[2] ELSE <<>>

\* nameParts.slice(1).join(' ') || ''
Lastname(form) == JoinText(Tail(NameParts(form)), <<" ">>)

PlanningStageCommas(v, phase) == Join(phase.values, ",")

\* Array.isArray(formData['phase[]']) ? formData['phase[]'].join(';')
\*                                    : formData['phase[]'] || ''
\* and, on the form-data transport, formData.getAll('phase[]').join(';');
\* then planningStage || '' in the payload.
PlanningStage(v, phase) ==
    IF v = "astro" THEN JsOr(Join(phase.values, ";"), "")
    ELSE IF phase.kind = "list" THEN JsOr(Join(phase.values, ";"), "")
    ELSE IF phase.kind = "single" THEN JsOr(JsOr(phase.values[1], ""), "")
    ELSE JsOr(JsOr(Undefined, ""), "")

\* formData.email, undefined when the field is absent; on the form-data
\* transport formData.get('email'), null when the field is absent.
Field(v, value) == IF value = Undefined /\ v = "astro" THEN Null ELSE value

NoPayload ==
    [built |-> FALSE, firstname |-> <<>>, lastname |-> <<>>, planningStage |-> ""]

\* const contactPayload (and, in the split revision, the custom fields of the
\* delayed update): the normalized properties
ContactPayload(v, form) ==
    [built |-> TRUE, firstname |-> Firstname(form), lastname |-> Lastname(form),
     planningStage |-> PlanningStage(v, form.phase),
     email |-> Field(v, form.email),
     phone |-> Field(v, form.phone),
     company |-> Field(v, form.serviceName),
     jobtitle |-> Field(v, form.position),
     serviceType |-> JsOr(Field(v, form.serviceType), ""),
     studentCount |-> JsOr(Field(v, form.studentCount), ""),
     budgetRange |-> JsOr(Field(v, form.indicativeBudget), ""),
     ageGroup |-> JsOr(Field(v, form.ageGroup), ""),
     message |-> JsOr(Field(v, form.additionalInfo), "")]

\* The properties of the basic payload and those of the delayed update
BasicKeys == {"email", "firstname", "lastname", "phone", "company", "jobtitle"}

CustomKeys ==
    {"wearthy_service_type", "wearthy_student_count", "wearthy_budget_range",
     "wearthy_age_group", "wearthy_planning_stage", "message",
     "wearthy_discovery_call_requested"}

\* The properties a call carries: all of them, the basic ones, the custom
\* ones, or none (the calls that write no contact).
KeysOf(fields) ==
    IF fields = "full" THEN BasicKeys \cup CustomKeys
    ELSE IF fields = "basic" THEN BasicKeys
    ELSE IF fields = "custom" THEN CustomKeys
    ELSE {}

\* The value of a property in the object that is sent
Property(payload, key) ==
    CASE key = "email" -> payload.email
      [] key = "firstname" -> Join(payload.firstname, "")
      [] key = "lastname" -> Join(payload.lastname, "")
      [] key = "phone" -> payload.phone
      [] key = "company" -> payload.company
      [] key = "jobtitle" -> payload.jobtitle
      [] key = "wearthy_service_type" -> payload.serviceType
      [] key = "wearthy_student_count" -> payload.studentCount
      [] key = "wearthy_budget_range" -> payload.budgetRange
      [] key = "wearthy_age_group" -> payload.ageGroup
      [] key = "wearthy_planning_stage" -> payload.planningStage
      [] key = "message" -> payload.message
      [] key = "wearthy_discovery_call_requested" -> "true"

\* JSON.stringify({properties: ...}): a property whose value is undefined is
\* left out, one whose value is null or '' is written.
JsonBody(fields, payload) ==
    [key \in {k \in KeysOf(fields) : Property(payload, k) # Undefined} |->
        Property(payload, key)]

\* The planning-stage tags of the form
PhaseTags == {"exploring", "preparing-next-budget"}

\* formData['phase[]']: absent, one value, or a list of values
PhaseInputs ==
    {[kind |-> "absent", values |-> <<>>]}
        \cup {[kind |-> "single", values |-> <<t>>] : t \in PhaseTags}
        \cup {[kind |-> "list", values |-> l] :
                  l \in UNION {[1..n -> PhaseTags] : n \in 0..MaxPhases}}

\* formData.contactName: absent, or a string
NameInputs ==
    {[given |-> FALSE, text |-> <<>>]}
        \cup {[given |-> TRUE, text |-> t] :
                  t \in UNION {[1..n -> NameChars] : n \in 0..MaxNameLen}}

\* A submission with every field but the name and the planning stage filled
\* in: every name and planning stage within the bounds
FormInputs ==
    [contactName : NameInputs, phase : PhaseInputs, email : {"a@b.c"},
     phone : {"0400"}, serviceName : {"Kindy"}, position : {"Director"},
     serviceType : {"childcare"}, studentCount : {"50-100"},
     indicativeBudget : {"50k"}, ageGroup : {"3-5"},
     additionalInfo : {"hello"}]

\* The submission of the runs that follow the handler to its response
FormSamples ==
    {f \in FormInputs :
        /\ f.contactName = [given |-> TRUE, text |-> <<"A", " ", "b">>]
        /\ f.phase = [kind |-> "list",
                      values |-> <<"exploring", "preparing-next-budget">>]}

\* A field of the form: absent, left empty, or filled in
OptionalValues(value) == {Undefined, "", value}

\* Submissions with the email and the optional enumerated fields absent,
\* empty or filled in, each on its own
FieldInputs ==
    [contactName : {[given |-> TRUE, text |-> <<"A", " ", "b">>]},
     phase : {[kind |-> "absent", values |-> <<>>],
              [kind |-> "list", values |-> <<>>],
              [kind |-> "list",
               values |-> <<"exploring", "preparing-next-budget">>]},
     email : OptionalValues("a@b.c"),
     phone : {"0400"}, serviceName : {"Kindy"}, position : {"Director"},
     serviceType : OptionalValues("childcare"),
     studentCount : OptionalValues("50-100"),
     indicativeBudget : OptionalValues("50k"),
     ageGroup : OptionalValues("3-5"),
     additionalInfo : {Undefined}]

-----------------------------------------------------------------------------
(* The remote side *)

ContactIds == {"501", "502"}
FileIds == {"9001", "9002"}

NoRes ==
    [state |-> "none", status |-> 0, parses |-> FALSE, hasMessage |-> FALSE,
     message |-> <<>>, embedded |-> Undefined, id |-> Undefined]

Threw == [NoRes EXCEPT !.state = "threw"]

\* A 2xx answer carries the record, with its id.
Success(status, id) ==
    [NoRes EXCEPT !.state = "returned", !.status = status, !.parses = TRUE,
                  !.id = id]

\* An error answer: a JSON body with a message, a JSON body without one, or
\* a body that is no JSON.  embedded is the existing ID the remote side put
\* into the message, if it put one.
Failure(status, parses, hasMessage, message, embedded) ==
    [NoRes EXCEPT !.state = "returned", !.status = status, !.parses = parses,
                  !.hasMessage = hasMessage, !.message = message,
                  !.embedded = embedded]

ErrorText == <<"d", "u", "p">>

\* The messages of a uniqueness conflict, with the ID each one carries.
ConflictMessages ==
    { [text |-> ExistingIdPrefix \o <<"1", "2", "3">>, embedded |-> "123"],
      [text |-> ErrorText \o <<" ">> \o ExistingIdPrefix \o <<"7", ".">>,
       embedded |-> "7"],
      [text |-> ErrorText, embedded |-> Undefined],
      [text |-> ExistingIdPrefix \o <<"x", "9">>, embedded |-> Undefined] }

ErrorBodies(status) ==
    { Failure(status, FALSE, FALSE, <<>>, Undefined),
      Failure(status, TRUE, FALSE, <<>>, Undefined),
      Failure(status, TRUE, TRUE, ErrorText, Undefined) }

CreateOutcomes ==
    {Threw}
        \cup {Success(201, id) : id \in ContactIds}
        \cup {Failure(409, TRUE, TRUE, m.text, m.embedded) : m \in ConflictMessages}
        \cup {Failure(409, FALSE, FALSE, <<>>, Undefined),
              Failure(409, TRUE, FALSE, <<>>, Undefined)}
        \cup ErrorBodies(400) \cup ErrorBodies(500)

\* A successful update answers with the record it updated; there is no
\* record at `undefined`.
UpdateOutcomes(target) ==
    {Threw} \cup ErrorBodies(404)
        \cup (IF target = Undefined THEN {} ELSE {Success(200, target)})

UploadOutcomes ==
    {Threw} \cup {Success(201, id) : id \in FileIds}
        \cup {Failure(400, TRUE, TRUE, ErrorText, Undefined)}

NoteOutcomes ==
    {Threw, Success(201, "1"), Failure(400, TRUE, TRUE, ErrorText, Undefined)}

\* await response.json() throws on a body that is no JSON.
JsonThrows(res) == ~res.parses

\* As MessageMatchThrows, with errorData.message?.match(...): no message, no
\* match, no error.
MessageMatchOptional(res) == FALSE

\* errorData.message.match(...) throws a TypeError when the body has no
\* message.
MessageMatchThrows(res) == ~res.hasMessage

\* The call was answered, and response.ok holds of the answer.
Is200s(res) == res.state = "returned" /\ IsOk(res.status)

\* A remote side that is followed: it keeps the contact records, enforces
\* that no two of them hold the same email, and answers every contact call.
\* The IDs it gives out, in order, as strings and in characters.
CrmIds ==
    << [id |-> "501", text |-> <<"5", "0", "1">>],
       [id |-> "502", text |-> <<"5", "0", "2">>],
       [id |-> "503", text |-> <<"5", "0", "3">>] >>

\* The remote side of the other runs: any answer, no records kept
NoCrm == [enforces |-> FALSE, contacts |-> {}]

EmptyCrm == [enforces |-> TRUE, contacts |-> {}]

\* 'Contact already exists. Existing ID: <id>', the message of the conflict
ConflictText(record) ==
    ErrorText \o <<" ">> \o ExistingIdPrefix
        \o (CHOOSE c \in {CrmIds[n] : n \in DOMAIN CrmIds} : c.id = record.id).text

\* The answer to a create call with this email: the new record, or the
\* conflict with the record that holds the email.
CrmCreate(email) ==
    LET held == {c \in crm.contacts : c.email = email}
    IN  IF held = {}
        THEN {Success(201, CrmIds[Cardinality(crm.contacts) + 1].id)}
        ELSE {Failure(409, TRUE, TRUE, ConflictText(c), c.id) : c \in held}

\* The answer to an update call: the record, or 404 when there is none
CrmUpdate(target) ==
    IF \E c \in crm.contacts : c.id = target
    THEN {Success(200, target)}
    ELSE ErrorBodies(404)

\* What the create call and an update call may come back with
CreateAnswers ==
    IF crm.enforces THEN CrmCreate(formData.email) ELSE CreateOutcomes

UpdateAnswers(target) ==
    IF crm.enforces THEN CrmUpdate(target) ELSE UpdateOutcomes(target)

\* The records after the create call was answered
CrmAfterCreate(res) ==
    IF crm.enforces /\ Is200s(res)
    THEN [crm EXCEPT !.contacts = @ \cup {[email |-> formData.email,
                                           id |-> res.id]}]
    ELSE crm

-----------------------------------------------------------------------------
(* Outbound calls *)

\* body holds the properties of the JSON body of a contact call.
Call(kind, target, fields, attachments, index, body) ==
    [kind |-> kind, target |-> target, fields |-> fields,
     attachments |-> attachments, index |-> index, body |-> body]

CreateCall(v, payload) ==
    Call("create", "", FirstPayload(v), "", 0,
         JsonBody(FirstPayload(v), payload))
UpdateCall(id, fields, payload) ==
    Call("update", id, fields, "", 0, JsonBody(fields, payload))
UploadCall(index) == Call("upload", "", "", "", index, JsonBody("", NoPayload))

\* As NoteCall, with the note associated to the first file instead of the
\* contact.
NoteCallFirstFile(cid, ids) ==
    Call("note", ids[1], "", Join(ids, ";"), 0, JsonBody("", NoPayload))

\* The note lists the files and is associated to the one contact.
NoteCall(cid, ids) ==
    Call("note", cid, "", Join(ids, ";"), 0, JsonBody("", NoPayload))

CallsOf(kind) == SelectSeq(calls, LAMBDA c : c.kind = kind)

-----------------------------------------------------------------------------
(* Initial state *)

\* One request: no other invocation
NoParked == [r \in {} |-> 0]

Init ==
    /\ variant \in Variants
    /\ apiKeySet \in BOOLEAN
    /\ method \in Methods(variant)
    /\ photos \in PhotoInputs
    /\ pc = "start"
    /\ calls = <<>>
    /\ createRes = NoRes
    /\ updateRes = <<>>
    /\ uploadRes = <<>>
    /\ noteRes = NoRes
    /\ contactId = Undefined
    /\ fileIds = <<>>
    /\ i = 1
    /\ response = NoResponse
    /\ formData \in FormSamples
    /\ contactPayload = NoPayload
    /\ apiKey \in {k \in KeySamples : apiKeySet <=> k # <<>>}
    /\ keyLog = NoKeyLog
    /\ current = 1
    /\ parked = NoParked
    /\ crm = NoCrm

-----------------------------------------------------------------------------
(* Steps of the handler *)

\* res.status(...).json(...) and return
Respond(r) ==
    /\ response' = r
    /\ pc' = "done"

\* The contact is written (or not): go on to the photos.
ToPhotoCheck == pc' = "photo_check"

\* After the first contact write of a revision: the split revision waits and
\* sends the custom fields, the others go on to the photos.
AfterFirstWrite ==
    pc' = IF UsesDelayedUpdate(variant) THEN "wait" ELSE "photo_check"

MethodNotAllowed ==
    /\ pc = "start"
    /\ ~MethodAllowed(method)
    /\ Respond(Response405)
    /\ UNCHANGED <<apiKey, keyLog, current, parked, crm,
                   formData, contactPayload, variant, apiKeySet, method,
                   photos, calls, createRes,
                   updateRes, uploadRes, noteRes, contactId, fileIds, i>>

MissingApiKey ==
    /\ pc = "start"
    /\ MethodAllowed(method)
    /\ ChecksApiKey(variant)
    /\ ~apiKeySet
    /\ Respond(ResponseConfigError)
    /\ UNCHANGED <<apiKey, keyLog, current, parked, crm,
                   formData, contactPayload, variant, apiKeySet, method,
                   photos, calls, createRes,
                   updateRes, uploadRes, noteRes, contactId, fileIds, i>>

\* As FetchCreate, with a submission without email rejected as a bad
\* request.
FetchCreateValidates ==
    /\ pc = "start"
    /\ MethodAllowed(method)
    /\ ChecksApiKey(variant) => apiKeySet
    /\ keyLog' = IF LogsApiKey(variant) THEN KeyLog(apiKey) ELSE keyLog
    /\ IF Truthy(formData.email)
       THEN /\ contactPayload' = ContactPayload(variant, formData)
            /\ calls' = Append(calls, CreateCall(variant, contactPayload'))
            /\ pc' = "await_create"
            /\ UNCHANGED response
       ELSE /\ Respond([Response500 EXCEPT !.status = 400])
            /\ UNCHANGED <<contactPayload, calls>>
    /\ UNCHANGED <<apiKey, current, parked, crm,
                   formData, variant, apiKeySet, method, photos, createRes,
                   updateRes, uploadRes, noteRes, contactId, fileIds, i>>

\* The payload is built and the create-contact call is issued.
FetchCreate ==
    /\ pc = "start"
    /\ MethodAllowed(method)
    /\ ChecksApiKey(variant) => apiKeySet
    /\ keyLog' = IF LogsApiKey(variant) THEN KeyLog(apiKey) ELSE keyLog
    /\ contactPayload' = ContactPayload(variant, formData)
    /\ calls' = Append(calls, CreateCall(variant, contactPayload'))
    /\ pc' = "await_create"
    /\ UNCHANGED <<apiKey, current, parked, crm,
                   formData, variant, apiKeySet, method, photos, createRes,
                   updateRes, uploadRes, noteRes, contactId, fileIds, i,
                   response>>

\* The create-contact call comes back: the branches on hubspotResponse.
CreateResponse ==
    /\ pc = "await_create"
    /\ \E res \in CreateAnswers :
        /\ crm' = CrmAfterCreate(res)
        /\ createRes' = res
        /\ IF res.state = "threw"
           THEN /\ Respond(Response500)
                /\ UNCHANGED <<calls, contactId>>
           ELSE IF res.status = 409
           THEN IF JsonThrows(res) \/ MessageMatchThrows(res)
                THEN \* json() throws, or message.match of undefined throws
                     /\ Respond(Response500)
                     /\ UNCHANGED <<calls, contactId>>
                ELSE LET existingContactId == MatchExistingId(res.message)
                     IN  IF Truthy(existingContactId)
                         THEN /\ calls' = Append(calls,
                                      UpdateCall(existingContactId,
                                                 FirstPayload(variant),
                                                 contactPayload))
                              /\ pc' = "await_update"
                              /\ UNCHANGED <<contactId, response>>
                         ELSE /\ ToPhotoCheck
                              /\ UNCHANGED <<calls, contactId, response>>
           ELSE IF IsOk(res.status)
           THEN /\ contactId' = res.id
                /\ AfterFirstWrite
                /\ UNCHANGED <<calls, response>>
           ELSE \* throw new Error('Failed to create contact in HubSpot')
                /\ Respond(Response500)
                /\ UNCHANGED <<calls, contactId>>
    /\ UNCHANGED <<apiKey, keyLog, current, parked,
                   formData, contactPayload, variant, apiKeySet, method,
                   photos, updateRes, uploadRes,
                   noteRes, fileIds, i>>

\* The update after a 409 comes back: contactId = updateData.id, whatever
\* the status of the answer.
UpdateResponse ==
    /\ pc = "await_update"
    /\ \E res \in UpdateAnswers(calls[Len(calls)].target) :
        /\ updateRes' = Append(updateRes, res)
        /\ IF res.state = "threw" \/ JsonThrows(res)
           THEN /\ Respond(Response500)
                /\ UNCHANGED contactId
           ELSE /\ contactId' = res.id
                /\ AfterFirstWrite
                /\ UNCHANGED response
    /\ UNCHANGED <<apiKey, keyLog, current, parked, crm,
                   formData, contactPayload, variant, apiKeySet, method,
                   photos, calls, createRes,
                   uploadRes, noteRes, fileIds, i>>

\* The fixed wait of the split revision is over: the custom fields are sent
\* to the contact at `${contactId}`.
WaitElapsed ==
    /\ pc = "wait"
    /\ calls' = Append(calls, UpdateCall(contactId, "custom",
                                           contactPayload))
    /\ pc' = "await_custom"
    /\ UNCHANGED <<apiKey, keyLog, current, parked, crm,
                   formData, contactPayload, variant, apiKeySet, method,
                   photos, createRes, updateRes,
                   uploadRes, noteRes, contactId, fileIds, i, response>>

\* As CustomPropsResponse, with the delayed update tried once more, after a
\* second wait, when it was answered with a failure.
CustomPropsResponseRetries ==
    /\ pc = "await_custom"
    /\ \E res \in UpdateAnswers(calls[Len(calls)].target) :
        /\ updateRes' = Append(updateRes, res)
        /\ IF res.state = "threw"
           THEN Respond(Response500)
           ELSE IF ~IsOk(res.status) /\ Len(updateRes) < 2
           THEN /\ pc' = "wait"
                /\ UNCHANGED response
           ELSE /\ ToPhotoCheck
                /\ UNCHANGED response
    /\ UNCHANGED <<apiKey, keyLog, current, parked, crm,
                   formData, contactPayload, variant, apiKeySet, method,
                   photos, calls, createRes,
                   uploadRes, noteRes, contactId, fileIds, i>>

\* The delayed update comes back: a failure answer is logged only.
CustomPropsResponse ==
    /\ pc = "await_custom"
    /\ \E res \in UpdateAnswers(calls[Len(calls)].target) :
        /\ updateRes' = Append(updateRes, res)
        /\ IF res.state = "threw"
           THEN Respond(Response500)
           ELSE /\ ToPhotoCheck
                /\ UNCHANGED response
    /\ UNCHANGED <<apiKey, keyLog, current, parked, crm,
                   formData, contactPayload, variant, apiKeySet, method,
                   photos, calls, createRes,
                   uploadRes, noteRes, contactId, fileIds, i>>

\* if (photos && Array.isArray(photos) && photos.length > 0 && contactId)
EnterPhotoLoop ==
    /\ pc = "photo_check"
    /\ ShouldProcessPhotos(variant, photos, contactId)
    /\ fileIds' = <<>>
    /\ i' = 1
    /\ pc' = "loop"
    /\ UNCHANGED <<apiKey, keyLog, current, parked, crm,
                   formData, contactPayload, variant, apiKeySet, method,
                   photos, calls, createRes,
                   updateRes, uploadRes, noteRes, contactId, response>>

\* No photo is processed: the success response follows at once.
SkipPhotos ==
    /\ pc = "photo_check"
    /\ ~ShouldProcessPhotos(variant, photos, contactId)
    /\ Respond(Response200(contactId))
    /\ UNCHANGED <<apiKey, keyLog, current, parked, crm,
                   formData, contactPayload, variant, apiKeySet, method,
                   photos, calls, createRes,
                   updateRes, uploadRes, noteRes, contactId, fileIds, i>>

\* uploadFileToHubSpot, the payload cannot be decoded: the catch block
\* returns null before any fetch.
UploadDecodeFails ==
    /\ pc = "loop"
    /\ i <= Len(photos.items)
    /\ DecodeThrows(photos.items[i])
    /\ uploadRes' = Append(uploadRes, Threw)
    /\ i' = i + 1
    /\ UNCHANGED <<apiKey, keyLog, current, parked, crm,
                   formData, contactPayload, variant, apiKeySet, method,
                   photos, pc, calls, createRes,
                   updateRes, noteRes, contactId, fileIds, response>>

\* As UploadFetch, without the await: the loop goes on to the next photo
\* while the call is in flight.
UploadFetchNoAwait ==
    /\ pc = "loop"
    /\ i <= Len(photos.items)
    /\ ~DecodeThrows(photos.items[i])
    /\ calls' = Append(calls, UploadCall(i - 1))
    /\ i' = i + 1
    /\ UNCHANGED <<apiKey, keyLog, current, parked, crm,
                   formData, contactPayload, variant, apiKeySet, method,
                   photos, pc, createRes,
                   updateRes, uploadRes, noteRes, contactId, fileIds, response>>

\* uploadFileToHubSpot, the file-upload call is issued.
UploadFetch ==
    /\ pc = "loop"
    /\ i <= Len(photos.items)
    /\ ~DecodeThrows(photos.items[i])
    /\ calls' = Append(calls, UploadCall(i - 1))
    /\ pc' = "await_upload"
    /\ UNCHANGED <<apiKey, keyLog, current, parked, crm,
                   formData, contactPayload, variant, apiKeySet, method,
                   photos, createRes, updateRes,
                   uploadRes, noteRes, contactId, fileIds, i, response>>

\* As UploadResponse, without the try block of uploadFileToHubSpot: a thrown
\* error reaches the catch block of the handler.
UploadResponseAborts ==
    /\ pc = "await_upload"
    /\ \E res \in UploadOutcomes :
        /\ uploadRes' = Append(uploadRes, res)
        /\ IF res.state = "threw"
           THEN /\ Respond(Response500)
                /\ UNCHANGED <<fileIds, i>>
           ELSE /\ fileIds' = IF Is200s(res) THEN PushFileId(fileIds, res.id)
                              ELSE fileIds
                /\ i' = i + 1
                /\ pc' = "loop"
                /\ UNCHANGED response
    /\ UNCHANGED <<apiKey, keyLog, current, parked, crm,
                   formData, contactPayload, variant, apiKeySet, method,
                   photos, calls, createRes,
                   updateRes, noteRes, contactId>>

\* As UploadResponse, with the contact deleted again when the upload failed.
UploadResponseRollsBack ==
    /\ pc = "await_upload"
    /\ \E res \in UploadOutcomes :
        /\ uploadRes' = Append(uploadRes, res)
        /\ IF Is200s(res)
           THEN /\ fileIds' = PushFileId(fileIds, res.id)
                /\ UNCHANGED calls
           ELSE /\ calls' = Append(calls, Call("delete", contactId, "", "", 0,
                                             JsonBody("", NoPayload)))
                /\ UNCHANGED fileIds
    /\ i' = i + 1
    /\ pc' = "loop"
    /\ UNCHANGED <<apiKey, keyLog, current, parked, crm,
                   formData, contactPayload, variant, apiKeySet, method,
                   photos, createRes, updateRes,
                   noteRes, contactId, response>>

\* uploadFileToHubSpot, the file-upload call comes back: result.id, or null
\* on a failure answer or a thrown error; if (fileId) fileIds.push(fileId).
UploadResponse ==
    /\ pc = "await_upload"
    /\ \E res \in UploadOutcomes :
        /\ uploadRes' = Append(uploadRes, res)
        /\ LET fileId == IF res.state = "threw" THEN Undefined
                         ELSE IF ~IsOk(res.status) THEN Undefined
                         ELSE IF JsonThrows(res) THEN Undefined
                         ELSE res.id
           IN  fileIds' = IF Truthy(fileId) THEN PushFileId(fileIds, fileId)
                          ELSE fileIds
    /\ i' = i + 1
    /\ pc' = "loop"
    /\ UNCHANGED <<apiKey, keyLog, current, parked, crm,
                   formData, contactPayload, variant, apiKeySet, method,
                   photos, calls, createRes,
                   updateRes, noteRes, contactId, response>>

\* createNoteWithAttachments, the note-create call is issued.
NoteFetch ==
    /\ pc = "loop"
    /\ i > Len(photos.items)
    /\ ShouldCreateNote(fileIds)
    /\ calls' = Append(calls, NoteCall(contactId, fileIds))
    /\ pc' = "await_note"
    /\ UNCHANGED <<apiKey, keyLog, current, parked, crm,
                   formData, contactPayload, variant, apiKeySet, method,
                   photos, createRes, updateRes,
                   uploadRes, noteRes, contactId, fileIds, i, response>>

\* As NoteResponse, with a failed note creation thrown to the handler.
NoteResponseSurfaces ==
    /\ pc = "await_note"
    /\ \E res \in NoteOutcomes :
        /\ noteRes' = res
        /\ IF Is200s(res) THEN Respond(Response200(contactId))
           ELSE Respond(Response500)
    /\ UNCHANGED <<apiKey, keyLog, current, parked, crm,
                   formData, contactPayload, variant, apiKeySet, method,
                   photos, calls, createRes,
                   updateRes, uploadRes, contactId, fileIds, i>>

\* createNoteWithAttachments comes back: every failure is logged only.
NoteResponse ==
    /\ pc = "await_note"
    /\ \E res \in NoteOutcomes : noteRes' = res
    /\ Respond(Response200(contactId))
    /\ UNCHANGED <<apiKey, keyLog, current, parked, crm,
                   formData, contactPayload, variant, apiKeySet, method,
                   photos, calls, createRes,
                   updateRes, uploadRes, contactId, fileIds, i>>

\* No upload gave a file ID: no note, the success response follows.
NoNote ==
    /\ pc = "loop"
    /\ i > Len(photos.items)
    /\ ~ShouldCreateNote(fileIds)
    /\ Respond(Response200(contactId))
    /\ UNCHANGED <<apiKey, keyLog, current, parked, crm,
                   formData, contactPayload, variant, apiKeySet, method,
                   photos, calls, createRes,
                   updateRes, uploadRes, noteRes, contactId, fileIds, i>>

Next ==
    \/ MethodNotAllowed
    \/ MissingApiKey
    \/ FetchCreate
    \/ CreateResponse
    \/ UpdateResponse
    \/ WaitElapsed
    \/ CustomPropsResponse
    \/ EnterPhotoLoop
    \/ SkipPhotos
    \/ UploadDecodeFails
    \/ UploadFetch
    \/ UploadResponse
    \/ NoteFetch
    \/ NoteResponse
    \/ NoNote

Spec == Init /\ [][Next]_vars

\* Every outbound call comes back or throws, and the handler runs on when it
\* has: a step that can be taken is not put off for ever.
SpecLive == Init /\ [][Next]_vars /\ WF_vars(Next)

-----------------------------------------------------------------------------
(* The normalization of the fields alone: every submission within the
   bounds, up to the create-contact call *)

InitNormalize ==
    /\ variant \in Variants
    /\ apiKeySet = TRUE
    /\ method = "POST"
    /\ photos = [given |-> FALSE, items |-> <<>>]
    /\ pc = "start"
    /\ calls = <<>>
    /\ createRes = NoRes
    /\ updateRes = <<>>
    /\ uploadRes = <<>>
    /\ noteRes = NoRes
    /\ contactId = Undefined
    /\ fileIds = <<>>
    /\ i = 1
    /\ response = NoResponse
    /\ formData \in FormInputs
    /\ contactPayload = NoPayload
    /\ apiKey \in {k \in KeySamples : apiKeySet <=> k # <<>>}
    /\ keyLog = NoKeyLog
    /\ current = 1
    /\ parked = NoParked
    /\ crm = NoCrm

NextNormalize == FetchCreate

SpecNormalize == InitNormalize /\ [][NextNormalize]_vars

-----------------------------------------------------------------------------
(* The contact writes of a submission without photos: the email and the
   optional enumerated fields absent, empty or filled in *)

InitFields ==
    /\ variant \in Variants
    /\ apiKeySet = TRUE
    /\ method = "POST"
    /\ photos = [given |-> FALSE, items |-> <<>>]
    /\ pc = "start"
    /\ calls = <<>>
    /\ createRes = NoRes
    /\ updateRes = <<>>
    /\ uploadRes = <<>>
    /\ noteRes = NoRes
    /\ contactId = Undefined
    /\ fileIds = <<>>
    /\ i = 1
    /\ response = NoResponse
    /\ formData \in FieldInputs
    /\ contactPayload = NoPayload
    /\ apiKey \in {k \in KeySamples : apiKeySet <=> k # <<>>}
    /\ keyLog = NoKeyLog
    /\ current = 1
    /\ parked = NoParked
    /\ crm = NoCrm

NextFields ==
    \/ FetchCreate
    \/ CreateResponse
    \/ UpdateResponse
    \/ WaitElapsed
    \/ CustomPropsResponse
    \/ SkipPhotos

SpecFields == InitFields /\ [][NextFields]_vars

-----------------------------------------------------------------------------
(* The credential check and the log of the token: every token within the
   bounds, up to the create-contact call *)

InitToken ==
    /\ variant \in Variants
    /\ apiKey \in KeyInputs
    /\ apiKeySet = (apiKey # <<>>)
    /\ method = "POST"
    /\ photos = [given |-> FALSE, items |-> <<>>]
    /\ pc = "start"
    /\ calls = <<>>
    /\ createRes = NoRes
    /\ updateRes = <<>>
    /\ uploadRes = <<>>
    /\ noteRes = NoRes
    /\ contactId = Undefined
    /\ fileIds = <<>>
    /\ i = 1
    /\ response = NoResponse
    /\ formData \in FormSamples
    /\ contactPayload = NoPayload
    /\ keyLog = NoKeyLog
    /\ current = 1
    /\ parked = NoParked
    /\ crm = NoCrm

NextToken ==
    \/ MissingApiKey
    \/ FetchCreate

SpecToken == InitToken /\ [][NextToken]_vars

-----------------------------------------------------------------------------
(* Several requests at a time.  The handlers run on one event loop: an
   invocation runs until it awaits, and then any other invocation may run.
   The variables hold the locals of the invocation that is running, parked
   those of the others. *)

\* The locals of the invocation that is running
Locals ==
    [method |-> method, photos |-> photos, pc |-> pc, calls |-> calls,
     createRes |-> createRes, updateRes |-> updateRes, uploadRes |-> uploadRes,
     noteRes |-> noteRes, contactId |-> contactId, fileIds |-> fileIds,
     i |-> i, response |-> response, formData |-> formData,
     contactPayload |-> contactPayload, keyLog |-> keyLog]

\* The locals of an invocation that has not started
Arrived(m, ph, form) ==
    [method |-> m, photos |-> ph, pc |-> "start", calls |-> <<>>,
     createRes |-> NoRes, updateRes |-> <<>>, uploadRes |-> <<>>,
     noteRes |-> NoRes, contactId |-> Undefined, fileIds |-> <<>>,
     i |-> 1, response |-> NoResponse, formData |-> form,
     contactPayload |-> NoPayload, keyLog |-> NoKeyLog]

\* The positions at which an invocation is not running: before it starts,
\* at an await (a fetch, or the timer of the fixed wait), after its response
Yields(p) ==
    p \in {"start", "await_create", "await_update", "wait", "await_custom",
           "await_upload", "await_note", "done"}

\* As ContactIdOf, with contactId declared at module level: one variable
\* for all invocations.
ContactIdShared(saved) == contactId

\* let contactId: a local of the invocation
ContactIdOf(saved) == saved.contactId

\* The event loop goes on with the invocation of request r.
SwitchTo(r) ==
    /\ Yields(pc)
    /\ r \in DOMAIN parked
    /\ current' = r
    /\ parked' = [q \in (DOMAIN parked \ {r}) \cup {current} |->
                      IF q = current THEN Locals ELSE parked[q]]
    /\ method' = parked[r].method
    /\ photos' = parked[r].photos
    /\ pc' = parked[r].pc
    /\ calls' = parked[r].calls
    /\ createRes' = parked[r].createRes
    /\ updateRes' = parked[r].updateRes
    /\ uploadRes' = parked[r].uploadRes
    /\ noteRes' = parked[r].noteRes
    /\ contactId' = ContactIdOf(parked[r])
    /\ fileIds' = parked[r].fileIds
    /\ i' = parked[r].i
    /\ response' = parked[r].response
    /\ formData' = parked[r].formData
    /\ contactPayload' = parked[r].contactPayload
    /\ keyLog' = parked[r].keyLog
    /\ UNCHANGED <<variant, apiKeySet, apiKey, crm>>

SwitchRequest == \E r \in DOMAIN parked : SwitchTo(r)

\* The photos of the requests that are handled two at a time
PhotoSamples ==
    {ph \in PhotoInputs :
        \/ ~ph.given
        \/ Len(ph.items) = 1 /\ ph.items[1].isString}

\* Two requests, any remote side
InitConcurrent ==
    /\ variant \in Variants
    /\ apiKeySet \in BOOLEAN
    /\ apiKey \in {k \in KeySamples : apiKeySet <=> k # <<>>}
    /\ method \in Methods(variant)
    /\ photos \in PhotoSamples
    /\ pc = "start"
    /\ calls = <<>>
    /\ createRes = NoRes
    /\ updateRes = <<>>
    /\ uploadRes = <<>>
    /\ noteRes = NoRes
    /\ contactId = Undefined
    /\ fileIds = <<>>
    /\ i = 1
    /\ response = NoResponse
    /\ formData \in FormSamples
    /\ contactPayload = NoPayload
    /\ keyLog = NoKeyLog
    /\ current = 1
    /\ parked \in [{2} -> {Arrived(m, ph, form) : m \in Methods(variant),
                                                   ph \in PhotoSamples,
                                                   form \in FormSamples}]
    /\ crm = NoCrm

NextConcurrent ==
    \/ Next
    \/ SwitchRequest

SpecConcurrent == InitConcurrent /\ [][NextConcurrent]_vars

\* Up to MaxRequests submissions with the same email and without photos,
\* against a remote side that enforces the uniqueness of the email
InitCrm ==
    /\ variant \in Variants
    /\ apiKeySet = TRUE
    /\ apiKey = SampleKey
    /\ method = "POST"
    /\ photos = [given |-> FALSE, items |-> <<>>]
    /\ pc = "start"
    /\ calls = <<>>
    /\ createRes = NoRes
    /\ updateRes = <<>>
    /\ uploadRes = <<>>
    /\ noteRes = NoRes
    /\ contactId = Undefined
    /\ fileIds = <<>>
    /\ i = 1
    /\ response = NoResponse
    /\ formData \in FormSamples
    /\ contactPayload = NoPayload
    /\ keyLog = NoKeyLog
    /\ current = 1
    /\ \E n \in 1..MaxRequests :
           parked = [r \in 2..n |-> Arrived(method, photos, formData)]
    /\ crm = EmptyCrm

NextCrm ==
    \/ FetchCreate
    \/ CreateResponse
    \/ UpdateResponse
    \/ WaitElapsed
    \/ CustomPropsResponse
    \/ SkipPhotos
    \/ SwitchRequest

SpecCrm == InitCrm /\ [][NextCrm]_vars

-----------------------------------------------------------------------------
(* Vocabulary of the properties *)

Done == pc = "done"

\* The remote side answered, with a 2xx status.
Is2xx(res) == res.state = "returned" /\ res.status \in 200..299

Count(kind) == Len(CallsOf(kind))

RECURSIVE IdsOfSucceeded(_)
\* The file IDs the remote side gave out, in the order of the photos.
IdsOfSucceeded(results) ==
    IF results = <<>> THEN <<>>
    ELSE (IF Is2xx(Head(results)) THEN <<Head(results).id>> ELSE <<>>)
             \o IdsOfSucceeded(Tail(results))

\* The create call was answered 409 and the message carries an existing ID.
ConflictWithId ==
    /\ createRes.state = "returned"
    /\ createRes.status = 409
    /\ createRes.parses
    /\ createRes.hasMessage
    /\ createRes.embedded # Undefined

\* The create call was answered 409 with a message that carries no existing ID.
ConflictWithoutId ==
    /\ createRes.state = "returned"
    /\ createRes.status = 409
    /\ createRes.parses
    /\ createRes.hasMessage
    /\ createRes.embedded = Undefined

\* A Contact ID was resolved: the create call was answered 2xx, or the update
\* that followed a 409 was.
Resolved ==
    \/ Is2xx(createRes)
    \/ /\ ConflictWithId
       /\ Len(updateRes) >= 1
       /\ Is2xx(updateRes[1])

\* Every contact write of the request was answered 2xx.
ContactWriteSucceeded ==
    /\ Resolved
    /\ Len(updateRes) = Count("update")
    /\ \A k \in 1..Len(updateRes) : Is2xx(updateRes[k])

NoPhotos == ~photos.given \/ photos.items = <<>>

-----------------------------------------------------------------------------
(* C1 *)

\* C1, as stated: when the create call is answered 2xx, the request issues
\* exactly one create call and no update call, and its 200 response carries
\* the ID of the create response.
C1_AsStated ==
    Is2xx(createRes) =>
        /\ Count("create") = 1
        /\ Count("update") = 0
        /\ (Done /\ response.status = 200) => response.contactId = createRes.id

\* C1, amended: when the create call is answered 2xx, the request issues
\* exactly one create call; the single-payload revisions issue no update
\* call and answer 200; the split revision issues exactly one update call,
\* the delayed one with the custom fields against the created ID, and
\* answers 200 unless that call throws; every 200 response carries the ID
\* of the create response.
C1_CreateSuccess ==
    Is2xx(createRes) =>
        /\ Count("create") = 1
        /\ variant # "split" =>
            /\ Count("update") = 0
            /\ Done => response.status = 200
        /\ variant = "split" =>
            /\ Count("update") = (IF pc = "wait" THEN 0 ELSE 1)
            /\ \A k \in 1..Count("update") :
                   /\ CallsOf("update")[k].target = createRes.id
                   /\ CallsOf("update")[k].fields = "custom"
            /\ Done => (response.status = 200 <=> updateRes[1].state # "threw")
        /\ (Done /\ response.status = 200) =>
            /\ response.success
            /\ response.contactId = createRes.id

C1_Witness ==
    /\ Done
    /\ Is2xx(createRes)
    /\ variant = "split"
    /\ Count("update") = 1
    /\ response.status = 200
    /\ response.contactId = createRes.id

-----------------------------------------------------------------------------
(* C2 *)

\* C2: when the create call is answered 409 with a message that carries
\* 'Existing ID: N', the request issues exactly one update call, against N,
\* and the contactId of its 200 response is N.
C2_AsStated ==
    (Done /\ ConflictWithId) =>
        /\ Count("update") = 1
        /\ CallsOf("update")[1].target = createRes.embedded
        /\ response.status = 200 => response.contactId = createRes.embedded

-----------------------------------------------------------------------------
(* C3 *)

\* C3: when the create call is answered 409 with a message that does not
\* carry the existing-ID pattern, the request answers 500 and issues no
\* update call.
C3_AsStated ==
    (Done /\ ConflictWithoutId) =>
        /\ response.status = 500
        /\ Count("update") = 0

-----------------------------------------------------------------------------
(* C4 *)

\* C4: the handler answers 200 with success:true only if a Contact ID was
\* resolved in the request, and that response carries the resolved ID.
C4_AsStated ==
    (Done /\ response.status = 200 /\ response.success) =>
        /\ Resolved
        /\ response.contactId # Undefined

-----------------------------------------------------------------------------
(* C5 *)

\* C5: when the create call is answered with a status that is neither 2xx
\* nor 409, the request answers 500 and the create call stays its only
\* outbound call.
C5_CreateFailure ==
    (createRes.state = "returned" /\ ~Is2xx(createRes) /\ createRes.status # 409) =>
        /\ Done
        /\ response.status = 500
        /\ ~response.success
        /\ Len(calls) = 1
        /\ calls[1].kind = "create"

C5_Witness ==
    /\ createRes.state = "returned"
    /\ createRes.status = 400
    /\ response.status = 500
    /\ Len(calls) = 1

-----------------------------------------------------------------------------
(* C6 *)

\* C6: when a contact update call is answered with a non-2xx status, the
\* request answers 500.
C6_AsStated ==
    (/\ Done
     /\ \E k \in 1..Len(updateRes) :
            updateRes[k].state = "returned" /\ ~Is2xx(updateRes[k])) =>
        response.status = 500

-----------------------------------------------------------------------------
(* C7 *)

\* C7: when the API token is not configured, a POST request issues no
\* outbound call and is answered 500.
C7_AsStated ==
    (~apiKeySet /\ method = "POST") =>
        /\ calls = <<>>
        /\ Done => response.status = 500

-----------------------------------------------------------------------------
(* C8 *)

\* C8: a request whose method is not POST is answered 405 with
\* {success:false, message:'Method not allowed'} and issues no outbound call.
C8_MethodNotAllowed ==
    method # "POST" =>
        /\ calls = <<>>
        /\ pc \in {"start", "done"}
        /\ Done =>
            /\ response.status = 405
            /\ ~response.success
            /\ response.message = "Method not allowed"
            /\ response.contactId = Undefined

C8_Witness ==
    /\ Done
    /\ method = "GET"
    /\ response.status = 405
    /\ calls = <<>>

-----------------------------------------------------------------------------
(* C9 *)

\* C9: when at least one upload of the request succeeded, the request issues
\* exactly one note-create call, whose attachment list is the file IDs of
\* the succeeded uploads in the order of the photos, joined by ';', and it
\* answers 200 with success:true.
C9_NoteAttachments ==
    (Done /\ IdsOfSucceeded(uploadRes) # <<>>) =>
        /\ Len(uploadRes) = Len(photos.items)
        /\ Count("note") = 1
        /\ CallsOf("note")[1].attachments = Join(IdsOfSucceeded(uploadRes), ";")
        /\ calls[Len(calls)].kind = "note"
        /\ response.status = 200
        /\ response.success

\* Three photos, upload 2 fails, uploads 1 and 3 succeed.
C9_Witness ==
    /\ Done
    /\ Len(uploadRes) = 3
    /\ Is2xx(uploadRes[1])
    /\ uploadRes[2].state = "returned" /\ ~Is2xx(uploadRes[2])
    /\ Is2xx(uploadRes[3])
    /\ uploadRes[1].id # uploadRes[3].id
    /\ Count("upload") = 3
    /\ Count("note") = 1
    /\ CallsOf("note")[1].attachments = uploadRes[1].id \o ";" \o uploadRes[3].id
    /\ response.status = 200

-----------------------------------------------------------------------------
(* C10 *)

\* C10: when the submission has no photos (absent or an empty list), the
\* request issues no file-upload and no note-create call, and when its
\* contact write succeeded it answers 200 with success:true.
C10_NoPhotos ==
    NoPhotos =>
        /\ Count("upload") = 0
        /\ Count("note") = 0
        /\ (Done /\ ContactWriteSucceeded) =>
            /\ response.status = 200
            /\ response.success

C10_Witness ==
    /\ Done
    /\ photos.given
    /\ photos.items = <<>>
    /\ UploadsPhotos(variant)
    /\ ContactWriteSucceeded
    /\ response.status = 200
    /\ response.success
    /\ Count("upload") = 0
    /\ Count("note") = 0

-----------------------------------------------------------------------------
(* Vocabulary of the photo properties *)

\* The payload is a string with data after a comma.
Decodable(photo) == photo.isString /\ \E p \in 1..Len(photo.text) : photo.text[p] = ","

\* The ID the request resolved, from what the remote side answered.
ResolvedId ==
    IF Is2xx(createRes) THEN createRes.id
    ELSE IF updateRes # <<>> /\ Is2xx(updateRes[1]) THEN updateRes[1].id
    ELSE Undefined

PhotoFlowRunning == pc \in {"loop", "await_upload", "await_note"}

\* The calls that write the contact: every call but the uploads and the note.
ContactCalls == SelectSeq(calls, LAMBDA c : c.kind \notin {"upload", "note"})

\* The file-upload calls that were issued and have not come back.
InFlightUploads ==
    Count("upload")
        - Cardinality({k \in 1..Len(uploadRes) : Decodable(photos.items[k])})

-----------------------------------------------------------------------------
(* C11 *)

\* C11: a note-create call is issued only if an upload of the request
\* succeeded, and at most once; when every upload failed, no note-create
\* call is issued and the request answers 200 with success:true.
C11_NoteOnlyAfterSuccess ==
    /\ Count("note") >= 1 => IdsOfSucceeded(uploadRes) # <<>>
    /\ Count("note") <= 1
    /\ (Done /\ uploadRes # <<>> /\ IdsOfSucceeded(uploadRes) = <<>>) =>
        /\ Count("note") = 0
        /\ response.status = 200
        /\ response.success

\* Two photos, one upload answered 400 and one thrown.
C11_Witness ==
    /\ Done
    /\ Len(uploadRes) = 2
    /\ Count("upload") = 2
    /\ uploadRes[1].state = "returned" /\ uploadRes[1].status = 400
    /\ uploadRes[2].state = "threw"
    /\ Count("note") = 0
    /\ response.status = 200

-----------------------------------------------------------------------------
(* C12 *)

\* C12: a failed upload does not abort the loop: the upload step runs once
\* for each photo, in index order, whatever the earlier outcomes were (a
\* file-upload call for each decodable photo), and the request answers 200.
C12_LoopNotAborted ==
    /\ pc \in {"loop", "await_upload"} =>
        /\ Len(uploadRes) = i - 1
        /\ i <= Len(photos.items) + 1
    /\ \A k \in 1..Count("upload") :
        /\ CallsOf("upload")[k].index + 1 \in 1..Len(photos.items)
        /\ Decodable(photos.items[CallsOf("upload")[k].index + 1])
        /\ k > 1 => CallsOf("upload")[k - 1].index < CallsOf("upload")[k].index
    /\ \A n \in 1..Len(uploadRes) :
        Decodable(photos.items[n]) =>
            \E k \in 1..Count("upload") : CallsOf("upload")[k].index = n - 1
    /\ (Done /\ uploadRes # <<>>) =>
        /\ Len(uploadRes) = Len(photos.items)
        /\ response.status = 200
        /\ response.success

\* Three photos: upload 1 answered 400, upload 2 thrown, upload 3 succeeded.
C12_Witness ==
    /\ Done
    /\ Len(photos.items) = 3
    /\ Len(uploadRes) = 3
    /\ Count("upload") = 3
    /\ uploadRes[1].state = "returned" /\ uploadRes[1].status = 400
    /\ uploadRes[2].state = "threw"
    /\ Is2xx(uploadRes[3])
    /\ response.status = 200

-----------------------------------------------------------------------------
(* C13 *)

\* C13: when the note-create call fails (a non-2xx answer or a thrown
\* error), the request still answers 200 with success:true and the resolved
\* Contact ID.
C13_NoteFailureSwallowed ==
    (Done /\ noteRes.state # "none" /\ ~Is2xx(noteRes)) =>
        /\ Resolved
        /\ ResolvedId # Undefined
        /\ response.status = 200
        /\ response.success
        /\ response.contactId = ResolvedId

C13_Witness ==
    /\ Done
    /\ noteRes.state = "returned"
    /\ noteRes.status = 400
    /\ Count("note") = 1
    /\ response.status = 200
    /\ response.contactId = ResolvedId

-----------------------------------------------------------------------------
(* C14 *)

\* C14: while the photo sub-flow runs, and whenever a file-upload or
\* note-create call has been issued, a Contact ID is resolved and every
\* contact call of the request has come back; so no such call is issued
\* before the contact write has returned, nor in a request that resolved no
\* Contact ID.
C14_PhotosAfterResolution ==
    (PhotoFlowRunning \/ Count("upload") + Count("note") > 0) =>
        /\ Resolved
        /\ Truthy(ResolvedId)
        /\ calls[1].kind = "create"
        /\ createRes.state = "returned"
        /\ Len(updateRes) = Count("update")
        /\ \A k \in 1..Len(updateRes) : updateRes[k].state = "returned"
        /\ \A k \in 1..Len(calls) :
               calls[k].kind \in {"upload", "note"} => k > Len(ContactCalls)

\* An upload is in flight in a request whose create call met a conflict.
C14_Witness ==
    /\ pc = "await_upload"
    /\ ConflictWithId
    /\ Is2xx(updateRes[1])
    /\ calls[Len(calls)].kind = "upload"

-----------------------------------------------------------------------------
(* C15 *)

\* C15: once the photo sub-flow has started, no step issues a contact call
\* (create, update or delete), whatever the upload and note outcomes are.
C15_ContactUntouched ==
    [][PhotoFlowRunning => ContactCalls' = ContactCalls]_vars

\* A request is done whose first upload failed and whose only contact call
\* is the create call.
C15_Witness ==
    /\ Done
    /\ uploadRes # <<>>
    /\ uploadRes[1].state = "returned"
    /\ ~Is2xx(uploadRes[1])
    /\ Count("upload") >= 1
    /\ Len(ContactCalls) = 1
    /\ response.status = 200

-----------------------------------------------------------------------------
(* C16 *)

\* C16: at most one file-upload call is in flight, and only while the
\* handler awaits it; the uploads are issued in index order; the note-create
\* call is issued only when every photo's upload has completed.
C16_Sequential ==
    /\ InFlightUploads \in {0, 1}
    /\ InFlightUploads = 1 <=> pc = "await_upload"
    /\ \A k \in 2..Count("upload") :
           CallsOf("upload")[k - 1].index < CallsOf("upload")[k].index
    /\ Count("note") >= 1 =>
        /\ InFlightUploads = 0
        /\ Len(uploadRes) = Len(photos.items)
        /\ calls[Len(calls)].kind = "note"

\* The second upload is in flight, the first one has come back.
C16_Witness ==
    /\ pc = "await_upload"
    /\ Count("upload") = 2
    /\ Len(uploadRes) = 1
    /\ InFlightUploads = 1

-----------------------------------------------------------------------------
(* C17 *)

\* C17, as stated: every 500 response carries one and the same message.
C17_AsStated ==
    response.status = 500 =>
        response.message = "An error occurred. Please try again or contact us directly."

\* C17, amended: every 500 response carries one of two fixed messages: the
\* configuration-error message when the credential is missing in the
\* revision that checks it, and one generic message for every other cause.
C17_FixedMessages ==
    response.status = 500 =>
        /\ ~response.success
        /\ response.contactId = Undefined
        /\ IF variant = "split" /\ ~apiKeySet
           THEN /\ response.message = "Server configuration error. Please contact support."
                /\ calls = <<>>
           ELSE response.message = "An error occurred. Please try again or contact us directly."

C17_Witness ==
    /\ Done
    /\ response.status = 500
    /\ ~apiKeySet
    /\ variant = "split"
    /\ response.message = "Server configuration error. Please contact support."

-----------------------------------------------------------------------------
(* C18 *)

\* The failure response of a request, from its method, its revision and
\* whether the credential is configured.
FailureResponseFor(v, m, keySet) ==
    IF m # "POST"
    THEN [status |-> 405, success |-> FALSE, contactId |-> Undefined,
          message |-> "Method not allowed"]
    ELSE IF v = "split" /\ ~keySet
    THEN [status |-> 500, success |-> FALSE, contactId |-> Undefined,
          message |-> "Server configuration error. Please contact support."]
    ELSE [status |-> 500, success |-> FALSE, contactId |-> Undefined,
          message |-> "An error occurred. Please try again or contact us directly."]

\* C18: the status and body of a failure response are a function of the
\* request's method, revision and configuration alone: two runs that both
\* fail send the same response, whatever the upstream error bodies or the
\* thrown errors were.
C18_NoLeak ==
    (Done /\ response.status # 200) =>
        response = FailureResponseFor(variant, method, apiKeySet)

\* The update against the ID the upstream error body carried has thrown.
C18_Witness ==
    /\ Done
    /\ response.status = 500
    /\ ConflictWithId
    /\ createRes.embedded = "123"
    /\ updateRes # <<>>
    /\ updateRes[1].state = "threw"

-----------------------------------------------------------------------------
(* C19 *)

RECURSIVE SemicolonList(_)
\* The values, each one but the first preceded by ';'
SemicolonList(values) ==
    IF values = <<>> THEN ""
    ELSE IF Len(values) = 1 THEN values[1]
    ELSE SemicolonList(SubSeq(values, 1, Len(values) - 1))
             \o ";" \o values[Len(values)]

\* C19: the planning stage sent is the values joined by ';' in list order
\* for a list, the value itself for a single value, and the empty string for
\* an absent field.
C19_PlanningStage ==
    contactPayload.built =>
        /\ formData.phase.kind = "list" =>
               contactPayload.planningStage = SemicolonList(formData.phase.values)
        /\ formData.phase.kind = "single" =>
               contactPayload.planningStage = formData.phase.values[1]
        /\ formData.phase.kind = "absent" => contactPayload.planningStage = ""

C19_Witness ==
    /\ contactPayload.built
    /\ formData.phase.kind = "list"
    /\ formData.phase.values = <<"exploring", "preparing-next-budget">>
    /\ contactPayload.planningStage = "exploring;preparing-next-budget"
    /\ Count("create") = 1

-----------------------------------------------------------------------------
(* C20 *)

\* The given name and the family name split the name at its first space.
SplitsAtFirstSpace(name, given, family) ==
    /\ \A p \in 1..Len(given) : given[p] # " "
    /\ IF \A p \in 1..Len(name) : name[p] # " "
       THEN given = name /\ family = <<>>
       ELSE name = given \o <<" ">> \o family

\* The name without the white space at its ends.
Trimmed(name) ==
    LET inner == {p \in 1..Len(name) : name[p] \notin {" ", "\t"}}
    IN  IF inner = {} THEN <<>>
        ELSE SubSeq(name,
                    CHOOSE p \in inner : \A q \in inner : p <= q,
                    CHOOSE p \in inner : \A q \in inner : q <= p)

\* C20, as stated: for every contact-name string, the given name sent is the
\* part before the first space (all of it if there is none) and the family
\* name sent is the rest after that space.
C20_AsStated ==
    (contactPayload.built /\ formData.contactName.given) =>
        SplitsAtFirstSpace(formData.contactName.text,
                           contactPayload.firstname, contactPayload.lastname)

\* C20, amended: the same of the contact name with the white space at its
\* ends removed.
C20_NameSplit ==
    (contactPayload.built /\ formData.contactName.given) =>
        SplitsAtFirstSpace(Trimmed(formData.contactName.text),
                           contactPayload.firstname, contactPayload.lastname)

\* A name with a space at its front: the given name is what follows it.
C20_Witness ==
    /\ contactPayload.built
    /\ formData.contactName.given
    /\ formData.contactName.text = <<" ", "A", " ", "b">>
    /\ contactPayload.firstname = <<"A">>
    /\ contactPayload.lastname = <<"b">>

-----------------------------------------------------------------------------
(* C21 *)

\* The keys of the optional enumerated fields
OptionalKeys ==
    {"wearthy_service_type", "wearthy_student_count", "wearthy_budget_range",
     "wearthy_age_group", "wearthy_planning_stage"}

\* What the submission gives for an optional enumerated field: the value,
\* or "" when the field is absent or empty.
Submitted(key) ==
    LET given(value) == IF value = Undefined THEN "" ELSE value
    IN  CASE key = "wearthy_service_type" -> given(formData.serviceType)
          [] key = "wearthy_student_count" -> given(formData.studentCount)
          [] key = "wearthy_budget_range" -> given(formData.indicativeBudget)
          [] key = "wearthy_age_group" -> given(formData.ageGroup)
          [] key = "wearthy_planning_stage" ->
                 SemicolonList(formData.phase.values)

\* The call carries every key of the optional enumerated fields, with what
\* the submission gives: the empty string when it lacks the field.
CarriesOptionalKeys(call) ==
    \A key \in OptionalKeys :
        /\ key \in DOMAIN call.body
        /\ call.body[key] = Submitted(key)

\* C21, as stated: every contact update call the handler issues carries
\* every key of the optional enumerated fields, with the empty string for a
\* field the submission lacks.
C21_AsStated ==
    \A k \in 1..Len(calls) :
        calls[k].kind = "update" => CarriesOptionalKeys(calls[k])

\* C21, amended: every contact call that carries the custom fields (every
\* create and update call of the revisions with one payload, the delayed
\* update of the split revision) carries every key of the optional
\* enumerated fields, with the empty string for a field the submission
\* lacks; the create call and the update after a 409 of the split revision
\* carry the six basic properties and none of these keys.
C21_OptionalKeys ==
    \A k \in 1..Len(calls) :
        calls[k].kind \in {"create", "update"} =>
            IF /\ variant = "split"
               /\ \/ calls[k].kind = "create"
                  \/ k = 2 /\ createRes.status = 409
            THEN DOMAIN calls[k].body \subseteq BasicKeys
            ELSE CarriesOptionalKeys(calls[k])

\* A submission that lacks every optional enumerated field, after a delayed
\* update and after an update of a revision with one payload.
C21_Witness ==
    /\ \A key \in OptionalKeys : Submitted(key) = ""
    /\ formData.serviceType = Undefined
    /\ formData.studentCount = ""
    /\ Count("update") >= 1
    /\ LET last == calls[Len(calls)]
       IN  /\ last.kind = "update"
           /\ last.fields \in {"custom", "full"}
           /\ \A key \in OptionalKeys : last.body[key] = ""

-----------------------------------------------------------------------------
(* C22 *)

\* What a request does when it is handled alone, from what the remote side
\* answered to it: the update after a 409 goes to the ID of its conflict
\* message, the delayed update and the note go to the ID its own contact
\* write gave, the note lists the files of its own uploads, an upload was
\* issued for each of its photos that was reached and could be decoded, and
\* its response is the failure response of its inputs, or 200 with the ID
\* it resolved.
AsAlone ==
    /\ Count("create") <= 1
    /\ \A k \in 1..Len(calls) :
           /\ calls[k].kind = "update" /\ calls[k].fields # "custom" =>
                  calls[k].target = createRes.embedded
           /\ calls[k].fields = "custom" =>
                  calls[k].target = IF Is2xx(createRes) THEN createRes.id
                                    ELSE updateRes[1].id
           /\ calls[k].kind = "note" =>
                  /\ calls[k].target = ResolvedId
                  /\ calls[k].attachments = Join(IdsOfSucceeded(uploadRes), ";")
    /\ contactId \in {Undefined, ResolvedId}
    /\ fileIds = IdsOfSucceeded(uploadRes)
    /\ InFlightUploads = (IF pc = "await_upload" THEN 1 ELSE 0)
    /\ Done =>
           IF response.status = 200
           THEN response = Response200(ResolvedId)
           ELSE response = FailureResponseFor(variant, method, apiKeySet)

\* A request in the fixed wait holds up nobody: the invocation that is
\* running can take its next step, and when it awaits, the event loop can
\* go on with any other invocation.
WaitBlocksNobody ==
    (pc = "wait" \/ \E r \in DOMAIN parked : parked[r].pc = "wait") =>
        /\ ~Done => ENABLED Next
        /\ Yields(pc) => \A r \in DOMAIN parked : ENABLED SwitchTo(r)

\* C22: two requests handled at a time share no state that changes.  In
\* every interleaving a step of one request leaves the locals of the other
\* as they are, and the event loop gives every request back the locals it
\* had; each request issues the calls and gives the response it gives when
\* handled alone with the same answers of the remote side; and a request in
\* the fixed wait does not keep the other from going on.
C22_Isolated ==
    /\ [](AsAlone /\ WaitBlocksNobody)
    /\ [][/\ current' = current => parked' = parked
          /\ current' # current =>
                 /\ parked'[current] = Locals
                 /\ Locals' = parked[current']]_vars

\* A request answered 200 with the contact it made while the other request,
\* which made another contact, is in the fixed wait.
C22_Witness ==
    /\ Done
    /\ response.status = 200
    /\ Is2xx(createRes)
    /\ response.contactId = createRes.id
    /\ \E r \in DOMAIN parked :
           /\ parked[r].pc = "wait"
           /\ parked[r].contactId # Undefined
           /\ parked[r].contactId # contactId
           /\ Len(parked[r].calls) < Len(calls)

-----------------------------------------------------------------------------
(* C23 *)

\* The locals of every request, running or not
AllLocals == {Locals} \cup {parked[r] : r \in DOMAIN parked}

\* The contact records that hold the email of the submissions
RecordsOf(email) == {c \in crm.contacts : c.email = email}

\* C23: against a remote side that enforces the uniqueness of the email,
\* submissions with the same email, in any interleaving, leave one contact
\* record for the email (none only until the first create call is
\* answered), and every request answers 200 with the ID of that record.
C23_OneContact ==
    \A l \in AllLocals :
        /\ Cardinality(RecordsOf(l.formData.email)) <= 1
        /\ l.createRes.state = "returned" =>
               Cardinality(RecordsOf(l.formData.email)) = 1
        /\ l.pc = "done" =>
               /\ l.response.status = 200
               /\ \E c \in RecordsOf(l.formData.email) :
                      l.response.contactId = c.id

\* A request answered 200 with the ID of the record that another request,
\* still on its way, made after this one had sent its own create call.
C23_Witness ==
    /\ Done
    /\ response.status = 200
    /\ ConflictWithId
    /\ RecordsOf(formData.email) = {[email |-> formData.email,
                                     id |-> response.contactId]}
    /\ \E r \in DOMAIN parked :
           /\ parked[r].formData.email = formData.email
           /\ Is2xx(parked[r].createRes)
           /\ parked[r].pc # "done"

-----------------------------------------------------------------------------
(* C24 *)

\* The positions of the token whose character the log shows: those of the
\* prefix and those of the suffix.
Shown(log) ==
    (1..Len(log.keyPrefix))
        \cup ((log.keyLength - Len(log.keySuffix) + 1)..log.keyLength)

\* C24, as stated: for every configured token, what the handler logs of it
\* (a prefix, a suffix and the length) is never the token in full: neither
\* the prefix nor the suffix is the token, and together they leave a
\* position of the token unshown.
C24_AsStated ==
    keyLog.logged =>
        /\ keyLog.keyPrefix # apiKey
        /\ keyLog.keySuffix # apiKey
        /\ Shown(keyLog) # 1..Len(apiKey)

-----------------------------------------------------------------------------
(* C25 *)

\* The delayed updates: the update calls that carry the custom fields only.
CustomUpdates ==
    SelectSeq(calls, LAMBDA c : c.kind = "update" /\ c.fields = "custom")

\* The first contact write came back with an answer the handler could read:
\* the create call with a 2xx status, or the update that followed a 409.
FirstWriteReturned ==
    \/ Is2xx(createRes)
    \/ /\ ConflictWithId
       /\ Len(updateRes) >= 1
       /\ updateRes[1].state = "returned"
       /\ updateRes[1].parses

\* The ID the first write resolved: the created ID, or the existing ID of
\* the conflict message.
FirstWriteId ==
    IF Is2xx(createRes) THEN createRes.id ELSE createRes.embedded

\* C25, as stated: in the split revision, once the first contact write has
\* returned and the fixed wait is over, exactly one update call that carries
\* only the custom fields has been issued, never a second one, before every
\* file-upload call, and it targets the ID the first write resolved (the
\* created ID, or the existing ID of the conflict message); before the
\* first write has returned there is none.
C25_AsStated ==
    variant = "split" =>
        /\ Len(CustomUpdates) <= 1
        /\ \A j, k \in 1..Len(calls) :
               calls[j].fields = "custom" /\ calls[k].kind = "upload" => j < k
        /\ ~FirstWriteReturned => CustomUpdates = <<>>
        /\ FirstWriteReturned /\ pc # "wait" =>
               /\ Len(CustomUpdates) = 1
               /\ CustomUpdates[1].target = FirstWriteId

-----------------------------------------------------------------------------
(* C26 *)

\* The submission has no email: the field is absent or empty.
EmailMissing == formData.email \in {Undefined, ""}

\* C26: a submission without email is not rejected: once the method (and,
\* where it is checked, the credential) is accepted, the create call is
\* issued with the email as it came (an absent one is left out of the JSON
\* body, or null on the form-data transport; an empty one is sent empty),
\* and the response never has a 4xx status.
C26_NoValidation ==
    EmailMissing =>
        /\ response.status \notin 400..499
        /\ pc # "start" =>
               /\ Count("create") = 1
               /\ calls[1].kind = "create"
               /\ IF formData.email = ""
                  THEN calls[1].body["email"] = ""
                  ELSE IF variant = "astro"
                  THEN calls[1].body["email"] = Null
                  ELSE "email" \notin DOMAIN calls[1].body

\* A submission without the email field answered 200, with the contact the
\* create call made.
C26_Witness ==
    /\ formData.email = Undefined
    /\ Done
    /\ response.status = 200
    /\ Is2xx(createRes)
    /\ response.contactId = createRes.id

-----------------------------------------------------------------------------
(* C27 *)

\* C27: every note-create call of a request is associated to one contact,
\* the one whose ID the request resolved, and the request answers 200 with
\* that same ID as contactId.
C27_NoteContact ==
    \A k \in 1..Len(calls) :
        calls[k].kind = "note" =>
            /\ Truthy(calls[k].target)
            /\ calls[k].target = ResolvedId
            /\ Done => /\ response.status = 200
                       /\ response.contactId = calls[k].target

\* A request answered 200 after its note was associated to the contact the
\* update after a 409 resolved.
C27_Witness ==
    /\ Done
    /\ response.status = 200
    /\ ConflictWithId
    /\ Count("note") = 1
    /\ CallsOf("note")[1].target = response.contactId
    /\ response.contactId = createRes.embedded

-----------------------------------------------------------------------------
(* C28 *)

\* C28: when every outbound call comes back or throws, the request gets its
\* response in the end, one response only, with status 200, 405 or 500; and
\* a request with n photos issues at most one create call, two update
\* calls, n upload calls and one note call.
C28_Terminates ==
    /\ <>Done
    /\ [](Done <=> response # NoResponse)
    /\ [](Done => response.status \in {200, 405, 500})
    /\ [][response # NoResponse => response' = response]_vars
    /\ [](/\ Count("create") <= 1
          /\ Count("update") <= 2
          /\ Count("upload") <= Len(photos.items)
          /\ Count("note") <= 1)

\* A request that got its response after as many calls as it may issue: the
\* create call, two updates, an upload for each photo and the note.
C28_Witness ==
    /\ Done
    /\ response.status = 200
    /\ Count("create") = 1
    /\ Count("update") = 2
    /\ Len(photos.items) >= 2
    /\ Count("upload") = Len(photos.items)
    /\ Count("note") = 1

-----------------------------------------------------------------------------
(* C29 *)

\* C29: a photo payload that cannot be decoded (no string, or a string
\* without a comma) counts as a failed upload: no file-upload call is issued
\* for it, it gives no attachment ID, the photos after it are processed, and
\* the request answers 200.
C29_UndecodablePhoto ==
    \A k \in 1..Len(uploadRes) :
        ~Decodable(photos.items[k]) =>
            /\ \A c \in 1..Len(calls) :
                   calls[c].kind = "upload" => calls[c].index # k - 1
            /\ ~Is2xx(uploadRes[k])
            /\ fileIds = IdsOfSucceeded(uploadRes)
            /\ pc = "loop" /\ k < Len(photos.items) => i > k
            /\ Done => /\ response.status = 200
                       /\ Len(uploadRes) = Len(photos.items)

\* A request answered 200 whose first photo could not be decoded and whose
\* second photo was uploaded and attached.
C29_Witness ==
    /\ Done
    /\ response.status = 200
    /\ Len(uploadRes) >= 2
    /\ ~Decodable(photos.items[1])
    /\ photos.items[1].isString
    /\ Is2xx(uploadRes[2])
    /\ Count("note") = 1
    /\ CallsOf("note")[1].attachments = uploadRes[2].id

-----------------------------------------------------------------------------
(* C30 *)

\* The create call was answered 409 with a body that has no message field,
\* or with a body that is no JSON.
ConflictWithoutMessage ==
    /\ createRes.state = "returned"
    /\ createRes.status = 409
    /\ ~createRes.parses \/ ~createRes.hasMessage

\* C30: when the create call is answered 409 and the body has no message
\* field or cannot be parsed, the handler issues no update call (no call at
\* all after the create call) and answers 500 with the generic message.
C30_ConflictWithoutMessage ==
    ConflictWithoutMessage =>
        /\ Done
        /\ response.status = 500
        /\ ~response.success
        /\ response.message = MsgGenericError
        /\ Count("update") = 0
        /\ Len(calls) = 1

\* A request answered 500 after a 409 whose JSON body had no message field.
C30_Witness ==
    /\ ConflictWithoutMessage
    /\ createRes.parses
    /\ Done
    /\ response.status = 500

====
